---- MODULE Spec2Model ----
(***************************************************************************)
(* A model of the uno-cards generator (src/main.py): the deck builder, the *)
(* prompt and filename mappers, the border colour parser, the export loop  *)
(* of generate_all_cards and the page loop of images_to_pdf.               *)
(*                                                                         *)
(* Text the program only concatenates (filenames, prompts) is a TLA+       *)
(* string.  Text the program parses (the border colour) is a sequence of   *)
(* one-character strings.                                                  *)
(***************************************************************************)
EXTENDS Integers, Sequences, FiniteSets, TLC

VARIABLES
    test_mode,            \* UNO_TEST_MODE
    generate_first_only,  \* UNO_GENERATE_FIRST_ONLY
    openai_model,         \* OPENAI_IMAGE_MODEL
    openai_size,          \* OPENAI_IMAGE_SIZE
    bg_exists,            \* os.path.exists(test_background_path)
    pc,                   \* position of the running function
    error,                \* the exception that ended the run, or "none"
    deck,                 \* generate_all_cards: deck
    idx,                  \* generate_all_cards: i of enumerate(deck, 1)
    saved,                \* generate_all_cards: saved
    files,                \* the PNG paths written under OUTPUT_DIR
    request,              \* the images.generate request in flight
    requests,             \* number of requests sent to the service
    calls,                \* number of requests the service answered
    sleeps,               \* number of time.sleep(0.6) pacing delays
    image_paths,          \* images_to_pdf: image_paths
    pdf_i,                \* images_to_pdf: i of enumerate(image_paths)
    page,                 \* the canvas' current page: the cells drawn on it
    shown,                \* the pages closed so far, in order
    breaks,               \* the values of i after which showPage was called
    pdf_saved,            \* c.save() has run
    color_str,            \* parse_border_color: its argument
    border_rgb,           \* parse_border_color: its result
    card_in,              \* concept_for_card: its argument
    concept               \* concept_for_card: its result

vars == <<test_mode, generate_first_only, openai_model, openai_size, bg_exists,
          pc, error, deck, idx, saved, files, request, requests, calls, sleeps,
          image_paths, pdf_i, page, shown, breaks, pdf_saved,
          color_str, border_rgb, card_in, concept>>

----------------------------------------------------------------------------
(* Bounds of the model *)

\* longest list of image paths handed to images_to_pdf on its own
MaxPaths == 108
\* longest border colour string
MaxStrLen == 7
\* largest card value and copy index given to concept_for_card on its own
MaxValue == 12
MaxCopy == 12

----------------------------------------------------------------------------
(* Card and build_uno_deck *)

\* value: Optional[int] = None
NoValue == -1

Card(color, kind, value, copy_index) ==
    [color |-> color, kind |-> kind, value |-> value, copy_index |-> copy_index]

colors == <<"red", "yellow", "green", "blue">>

RECURSIVE Flat(_)
\* the appends of a loop, one sequence per iteration, in iteration order
Flat(ss) == IF ss = <<>> THEN <<>> ELSE Head(ss) \o Flat(Tail(ss))

\* zero: one per color
ZeroCards == [k \in 1..Len(colors) |-> Card(colors[k], "number", 0, 1)]

\* a number loop over range(1, 9), which leaves the nines out
NumberCardsTo8 ==
    Flat([k \in 1..Len(colors) |->
        Flat([n \in 1..8 |-> << Card(colors[k], "number", n, 1),
                                Card(colors[k], "number", n, 2) >>])])

\* one to nine: two per color
NumberCards ==
    Flat([k \in 1..Len(colors) |->
        Flat([n \in 1..9 |-> << Card(colors[k], "number", n, 1),
                                Card(colors[k], "number", n, 2) >>])])

\* action cards: two of each per color
ActionCards ==
    Flat([k \in 1..Len(colors) |->
        Flat([i \in 1..2 |-> << Card(colors[k], "skip", NoValue, i),
                                Card(colors[k], "reverse", NoValue, i),
                                Card(colors[k], "draw2", NoValue, i) >>])])

\* wild cards: four each
WildCards ==
    Flat([i \in 1..4 |-> << Card("wild", "wild", NoValue, i),
                            Card("wild", "wild_draw4", NoValue, i) >>])

\* a builder whose action loop runs before its number loop
build_actions_first == ZeroCards \o ActionCards \o NumberCards \o WildCards

\* the list built before the assertion
build_uno_deck == ZeroCards \o NumberCards \o ActionCards \o WildCards

\* assert len(deck) == 108
DeckAssert(d) == Len(d) = 108

----------------------------------------------------------------------------
(* COLOR_THEME and the prompt mapper *)

COLOR_THEME == [
    red |-> <<
        "Jesus welcoming children in a sunny park",
        "Sermon on the Mount with smiling crowd",
        "Calming the storm gently while disciples watch",
        "Feeding the five thousand with bread and fish",
        "Walking on water in a peaceful sea scene",
        "Healing a child with kind smile, indoors",
        "Nativity with baby in manger and friendly animals",
        "Good Shepherd carrying a lamb on green hills",
        "Calling the disciples by the seaside",
        "Triumphal entry with children waving branches" >>,
    yellow |-> <<
        "Moses parting the Red Sea, joyful style",
        "David with sling facing Goliath playfully",
        "Noah with animals near a bright rainbow",
        "Abraham looking at stars with Isaac",
        "Joseph with colorful coat smiling",
        "Jonah near a big friendly fish",
        "Daniel in the lions' den with cuddly lions",
        "Queen Esther brave before the king",
        "Ruth gathering wheat joyfully",
        "Young Samuel listening to God at night" >>,
    green |-> <<
        "Good Samaritan helping traveler on the road",
        "Wise and foolish builders, sun vs. rain",
        "Lost sheep found by smiling shepherd",
        "Mustard seed growing into a tree with birds",
        "Prodigal son hugged by his father happily",
        "Ten bridesmaids with glowing lamps",
        "Hidden treasure found in a field",
        "Pearl of great price in hands",
        "Sower scattering seeds with sprouts",
        "Vine and branches full of fruit" >>,
    blue |-> <<
        "Multiplication of loaves picnic scene",
        "Healing of a blind man with happy crowd",
        "Raising Jairus's daughter gently",
        "Cleansing of a leper with gratitude",
        "Paralytic lowered through roof playfully",
        "Water turned into wine at Cana",
        "Miraculous catch of fish with nets",
        "Mary and Martha welcoming Jesus",
        "Zacchaeus waving from a tree branch",
        "Peter rescued from sinking, gentle help" >>,
    wild |-> <<
        "Creation with sun, moon and smiling animals",
        "Empty tomb at sunrise, hopeful scene",
        "Pentecost with friendly flames above people",
        "Shining New Jerusalem with the river of life",
        "Ark of the Covenant stylized and bright",
        "Burning bush with warm glow",
        "Jacob's ladder with playful angels",
        "Baptism in the Jordan, peaceful waters" >> ]

\* a Python list index: theme_items[n] is the (n+1)-th element
Item(items, n) == items[n + 1]

\* a mapper that indexes every card's theme by its copy index
concept_by_copy(card) ==
    IF card.color = "wild"
    THEN { COLOR_THEME["wild"][k] : k \in 1..Len(COLOR_THEME["wild"]) }
    ELSE { Item(COLOR_THEME[card.color],
                card.copy_index % Len(COLOR_THEME[card.color])) }

\* the set of strings concept_for_card(card) can return: random.choice may
\* return any element of the wild list
concept_for_card(card) ==
    IF card.color = "wild"
    THEN { COLOR_THEME["wild"][k] : k \in 1..Len(COLOR_THEME["wild"]) }
    ELSE LET theme_items == COLOR_THEME[card.color]
         IN  IF card.kind = "number" /\ card.value # NoValue
             THEN { Item(theme_items, card.value % Len(theme_items)) }
             ELSE { Item(theme_items, card.copy_index % Len(theme_items)) }

base_style ==
    "cute bible illustration, cartoon style for children, soft shading, "
    \o "bright colors, clean outlines, wholesome, friendly faces, high quality, "
    \o "no text overlay, simple background"

color_hint == [
    red    |-> "primary accent red tones",
    yellow |-> "primary accent yellow tones",
    green  |-> "primary accent green tones",
    blue   |-> "primary accent blue tones",
    wild   |-> "balanced rainbow accents" ]

\* the prompt built around one concept string
PromptOf(c, card) == c \o ", " \o base_style \o ", " \o color_hint[card.color]

\* the set of prompts prompt_for_card(card) can return
prompt_for_card(card) == { PromptOf(c, card) : c \in concept_for_card(card) }

----------------------------------------------------------------------------
(* filename_for and the output path *)

OUTPUT_DIR == "uno-cards-out"

\* a mapper that leaves the copy index out of the name
filename_without_copy(card) ==
    card.color \o "_" \o card.kind
    \o (IF card.kind = "number" THEN "_" \o ToString(card.value) ELSE "")
    \o ".png"

filename_for(card) ==
    LET base0 == card.color \o "_" \o card.kind
        base1 == IF card.kind = "number"
                 THEN base0 \o "_" \o ToString(card.value)
                 ELSE base0
        base2 == base1 \o "-x" \o ToString(card.copy_index)
    IN  base2 \o ".png"

\* os.path.join(OUTPUT_DIR, name)
PathJoin(dir, name) == dir \o "/" \o name

----------------------------------------------------------------------------
(* parse_border_color, on strings as sequences of characters *)

\* the characters border colour strings are drawn from
Alphabet == {"#", "1", "f", ",", " "}

HexChars == <<"0", "1", "2", "3", "4", "5", "6", "7", "8", "9",
              "a", "b", "c", "d", "e", "f">>
HexUpper == <<"0", "1", "2", "3", "4", "5", "6", "7", "8", "9",
              "A", "B", "C", "D", "E", "F">>

\* the value of a digit character, or -1 when it is no digit
DigitVal(c) ==
    IF \E k \in 1..16 : HexChars[k] = c
    THEN (CHOOSE k \in 1..16 : HexChars[k] = c) - 1
    ELSE IF \E k \in 1..16 : HexUpper[k] = c
         THEN (CHOOSE k \in 1..16 : HexUpper[k] = c) - 1
         ELSE -1

RECURSIVE LStrip(_)
LStrip(s) == IF s # <<>> /\ Head(s) = " " THEN LStrip(Tail(s)) ELSE s

RECURSIVE RStrip(_)
RStrip(s) == IF s # <<>> /\ s[Len(s)] = " "
             THEN RStrip(SubSeq(s, 1, Len(s) - 1)) ELSE s

\* str.strip()
Strip(s) == RStrip(LStrip(s))

\* s[a:b] of Python, 0-based, clamped to the string
Slice(s, a, b) ==
    LET lo == IF a < Len(s) THEN a ELSE Len(s)
        hi == IF b < Len(s) THEN b ELSE Len(s)
    IN  SubSeq(s, lo + 1, hi)

\* int(s, base) succeeds: after stripping, a non-empty run of digits of the
\* base (no sign, prefix or underscore occurs in Alphabet)
IntOk(s, base) ==
    LET t == Strip(s)
    IN  /\ t # <<>>
        /\ \A k \in 1..Len(t) : DigitVal(t[k]) >= 0 /\ DigitVal(t[k]) < base

RECURSIVE DigitsVal(_, _)
DigitsVal(t, base) ==
    IF t = <<>> THEN 0
    ELSE DigitsVal(SubSeq(t, 1, Len(t) - 1), base) * base + DigitVal(t[Len(t)])

\* the value of int(s, base) when it succeeds
IntVal(s, base) == DigitsVal(Strip(s), base)

RECURSIVE Split(_, _)
\* s.split(sep) for a one-character separator
Split(s, sep) ==
    IF \E k \in 1..Len(s) : s[k] = sep
    THEN LET k == CHOOSE j \in 1..Len(s) :
                      s[j] = sep /\ \A m \in 1..(j - 1) : s[m] # sep
         IN  <<SubSeq(s, 1, k - 1)>> \o Split(SubSeq(s, k + 1, Len(s)), sep)
    ELSE <<s>>

\* "".join(c * 2 for c in hex_color)
Doubled(h) == [k \in 1..(2 * Len(h)) |-> h[(k + 1) \div 2]]

\* the except branch
Black == <<0, 0, 0>>

parse_border_color(s) ==
    LET t == Strip(s)
    IN  IF t # <<>> /\ Head(t) = "#"
        THEN LET h0 == Tail(t)
                 hex_color == IF Len(h0) = 3 THEN Doubled(h0) ELSE h0
                 part(i) == Slice(hex_color, i, i + 2)
             IN  IF IntOk(part(0), 16) /\ IntOk(part(2), 16) /\ IntOk(part(4), 16)
                 THEN <<IntVal(part(0), 16), IntVal(part(2), 16), IntVal(part(4), 16)>>
                 ELSE Black
        ELSE LET parts == Split(t, ",")
             IN  IF Len(parts) = 3 /\ \A k \in 1..3 : IntOk(parts[k], 10)
                 THEN <<IntVal(parts[1], 10), IntVal(parts[2], 10), IntVal(parts[3], 10)>>
                 ELSE Black

----------------------------------------------------------------------------
(* gen_image_from_openai *)

\* size: str = "1024x1024"
DefaultSize == "1024x1024"

\* the request client.images.generate receives
gen_image_from_openai(prompt, size) ==
    [model |-> "gpt-image-1", prompt |-> prompt, size |-> size]

\* os.getenv("OPENAI_IMAGE_MODEL", "gpt-image-1")
Models == {"gpt-image-1", "dall-e-3"}
\* os.getenv("OPENAI_IMAGE_SIZE", "1024x1792")
Sizes == {"1024x1792", "1024x1024"}

----------------------------------------------------------------------------
(* The state before anything has run *)

Idle ==
    /\ error = "none"
    /\ deck = <<>>
    /\ idx = 0
    /\ saved = <<>>
    /\ files = {}
    /\ request = {}
    /\ requests = 0
    /\ calls = 0
    /\ sleeps = 0
    /\ pdf_i = 0
    /\ page = {}
    /\ shown = <<>>
    /\ breaks = {}
    /\ pdf_saved = FALSE
    /\ border_rgb = Black
    /\ concept = ""

\* the settings read from the environment at import time, defaults included
Defaults ==
    /\ test_mode = FALSE
    /\ generate_first_only = FALSE
    /\ openai_model = "gpt-image-1"
    /\ openai_size = "1024x1792"
    /\ bg_exists = TRUE

NoInputs ==
    /\ image_paths = <<>>
    /\ color_str = <<>>
    /\ card_in = Card("red", "number", 0, 1)

cfg_vars == <<test_mode, generate_first_only, openai_model, openai_size, bg_exists>>
gen_vars == <<deck, idx, saved, files, request, requests, calls, sleeps>>
pdf_vars == <<image_paths, pdf_i, page, shown, breaks, pdf_saved>>
fun_vars == <<color_str, border_rgb, card_in, concept>>

----------------------------------------------------------------------------
(* generate_all_cards *)

\* an uncaught exception ends the run
Raise(e) == pc' = "failed" /\ error' = e

\* ensure_dir(OUTPUT_DIR); deck = build_uno_deck(); saved = []
BuildDeck ==
    /\ pc = "start"
    /\ deck' = build_uno_deck
    /\ saved' = <<>>
    /\ IF DeckAssert(build_uno_deck)
       THEN pc' = "load_bg" /\ error' = error
       ELSE Raise("AssertionError")
    /\ UNCHANGED <<cfg_vars, idx, files, request, requests, calls, sleeps,
                   pdf_vars, fun_vars>>

\* test_bg = load_test_background() if test_mode else None; then the loop
\* header takes the first card
LoadTestBackground ==
    /\ pc = "load_bg"
    /\ IF test_mode /\ ~bg_exists
       THEN Raise("FileNotFoundError") /\ idx' = idx
       ELSE /\ error' = error
            /\ IF Len(deck) > 0
               THEN pc' = "art" /\ idx' = 1
               ELSE pc' = "returned" /\ idx' = idx
    /\ UNCHANGED <<cfg_vars, deck, saved, files, request, requests, calls,
                   sleeps, pdf_vars, fun_vars>>

\* art = test_bg
UseTestBackground ==
    /\ pc = "art"
    /\ test_mode
    /\ pc' = "render"
    /\ UNCHANGED <<cfg_vars, error, gen_vars, pdf_vars, fun_vars>>

\* prompt = prompt_for_card(card); art = gen_image_from_openai(prompt): the
\* request leaves
SendRequest ==
    /\ pc = "art"
    /\ ~test_mode
    /\ \E prompt \in prompt_for_card(deck[idx]) :
           request' = { gen_image_from_openai(prompt, DefaultSize) }
    /\ requests' = requests + 1
    /\ pc' = "await"
    /\ UNCHANGED <<cfg_vars, error, deck, idx, saved, files, calls, sleeps,
                   pdf_vars, fun_vars>>

\* the service answers with an image
ResponseOk ==
    /\ pc = "await"
    /\ request' = {}
    /\ calls' = calls + 1
    /\ pc' = "render"
    /\ UNCHANGED <<cfg_vars, error, deck, idx, saved, files, requests, sleeps,
                   pdf_vars, fun_vars>>

\* a caller that catches the service error and sends the request again
ResponseErrorRetried ==
    /\ pc = "await"
    /\ request' = {}
    /\ error' = "APIError"
    /\ pc' = "art"
    /\ UNCHANGED <<cfg_vars, deck, idx, saved, files, requests, calls, sleeps,
                   pdf_vars, fun_vars>>

\* the service call raises (network, auth, quota, malformed response)
ResponseError ==
    /\ pc = "await"
    /\ request' = {}
    /\ Raise("APIError")
    /\ UNCHANGED <<cfg_vars, deck, idx, saved, files, requests, calls, sleeps,
                   pdf_vars, fun_vars>>

\* card_img = render_card(card, art); card_img.save(out_path, "PNG");
\* saved.append(out_path)
SaveCard ==
    /\ pc = "render"
    /\ LET out_path == PathJoin(OUTPUT_DIR, filename_for(deck[idx]))
       IN  /\ files' = files \cup {out_path}
           /\ saved' = Append(saved, out_path)
    /\ pc' = "pace"
    /\ UNCHANGED <<cfg_vars, error, deck, idx, request, requests, calls, sleeps,
                   pdf_vars, fun_vars>>

\* a pacing step with its condition inverted: if test_mode: time.sleep(0.6)
PaceInverted ==
    /\ pc = "pace"
    /\ sleeps' = IF test_mode THEN sleeps + 1 ELSE sleeps
    /\ pc' = "stop_check"
    /\ UNCHANGED <<cfg_vars, error, deck, idx, saved, files, request, requests,
                   calls, pdf_vars, fun_vars>>

\* if not test_mode: time.sleep(0.6)
Pace ==
    /\ pc = "pace"
    /\ sleeps' = IF ~test_mode THEN sleeps + 1 ELSE sleeps
    /\ pc' = "stop_check"
    /\ UNCHANGED <<cfg_vars, error, deck, idx, saved, files, request, requests,
                   calls, pdf_vars, fun_vars>>

\* a loop end that never breaks early
StopCheckNoBreak ==
    /\ pc = "stop_check"
    /\ IF idx < Len(deck)
       THEN pc' = "art" /\ idx' = idx + 1
       ELSE pc' = "returned" /\ idx' = idx
    /\ UNCHANGED <<cfg_vars, error, deck, saved, files, request, requests,
                   calls, sleeps, pdf_vars, fun_vars>>

\* if generate_first_only: break; otherwise the loop header takes the next
\* card or the loop ends; return saved
StopCheck ==
    /\ pc = "stop_check"
    /\ IF generate_first_only
       THEN pc' = "returned" /\ idx' = idx
       ELSE IF idx < Len(deck)
            THEN pc' = "art" /\ idx' = idx + 1
            ELSE pc' = "returned" /\ idx' = idx
    /\ UNCHANGED <<cfg_vars, error, deck, saved, files, request, requests,
                   calls, sleeps, pdf_vars, fun_vars>>

----------------------------------------------------------------------------
(* main and images_to_pdf *)

cards_per_row == 3
cards_per_column == 3
cards_per_page == cards_per_row * cards_per_column

\* main: images_to_pdf(paths, PDF_PATH); c = canvas.Canvas(...)
PdfOpen ==
    /\ pc = "returned"
    /\ image_paths' = saved
    /\ pdf_i' = 0
    /\ page' = {}
    /\ shown' = <<>>
    /\ breaks' = {}
    /\ pdf_saved' = FALSE
    /\ pc' = "pdf"
    /\ UNCHANGED <<cfg_vars, error, gen_vars, fun_vars>>

\* the cell image i is drawn in
CellOf(i, p) ==
    LET card_index_in_page == i % cards_per_page
    IN  [row |-> card_index_in_page \div cards_per_row,
         col |-> card_index_in_page % cards_per_row,
         i |-> i, path |-> p]

\* a page break after every 9th image, the last one included
PageFullAlways(i, n) == (i + 1) % cards_per_page = 0

\* start new page when page is full
PageFull(i, n) == (i + 1) % cards_per_page = 0 /\ i + 1 < n

\* one iteration of the loop: c.drawImage(...), then c.showPage() when the
\* page is full
PdfDraw ==
    /\ pc = "pdf"
    /\ pdf_i < Len(image_paths)
    /\ LET i == pdf_i
           drawn == page \cup { CellOf(i, image_paths[i + 1]) }
       IN  IF PageFull(i, Len(image_paths))
           THEN /\ shown' = Append(shown, drawn)
                /\ page' = {}
                /\ breaks' = breaks \cup {i}
           ELSE /\ shown' = shown
                /\ page' = drawn
                /\ breaks' = breaks
    /\ pdf_i' = pdf_i + 1
    /\ UNCHANGED <<cfg_vars, pc, error, gen_vars, image_paths, pdf_saved, fun_vars>>

\* c.save(): the canvas closes the page it holds drawings for and writes
\* the document
PdfSave ==
    /\ pc = "pdf"
    /\ pdf_i = Len(image_paths)
    /\ shown' = IF page # {} THEN Append(shown, page) ELSE shown
    /\ page' = {}
    /\ pdf_saved' = TRUE
    /\ pc' = "done"
    /\ UNCHANGED <<cfg_vars, error, gen_vars, image_paths, pdf_i, breaks, fun_vars>>

----------------------------------------------------------------------------
(* The whole run of main, under every setting of the environment *)

Init ==
    /\ test_mode \in BOOLEAN
    /\ generate_first_only \in BOOLEAN
    /\ openai_model \in Models
    /\ openai_size \in Sizes
    /\ bg_exists \in BOOLEAN
    /\ pc = "start"
    /\ Idle
    /\ NoInputs

Next ==
    \/ BuildDeck
    \/ LoadTestBackground
    \/ UseTestBackground
    \/ SendRequest
    \/ ResponseOk
    \/ ResponseError
    \/ SaveCard
    \/ Pace
    \/ StopCheck
    \/ PdfOpen
    \/ PdfDraw
    \/ PdfSave

Spec == Init /\ [][Next]_vars

----------------------------------------------------------------------------
(* images_to_pdf on its own, on any list of 1..MaxPaths image paths *)

PathsOf(n) == [k \in 1..n |-> PathJoin(OUTPUT_DIR, "img" \o ToString(k) \o ".png")]

InitPdf ==
    /\ Defaults
    /\ pc = "pdf"
    /\ Idle
    /\ \E n \in 1..MaxPaths : image_paths = PathsOf(n)
    /\ color_str = <<>>
    /\ card_in = Card("red", "number", 0, 1)

NextPdf == PdfDraw \/ PdfSave

SpecPdf == InitPdf /\ [][NextPdf]_vars

----------------------------------------------------------------------------
(* parse_border_color on its own, on every string over Alphabet of at most *)
(* MaxStrLen characters                                                    *)

Strings == UNION { [1..n -> Alphabet] : n \in 0..MaxStrLen }

\* border_rgb = parse_border_color(border_color)
ParseBorderColor ==
    /\ pc = "parse"
    /\ border_rgb' = parse_border_color(color_str)
    /\ pc' = "parsed"
    /\ UNCHANGED <<cfg_vars, error, gen_vars, pdf_vars, color_str, card_in, concept>>

InitColor ==
    /\ Defaults
    /\ pc = "parse"
    /\ Idle
    /\ color_str \in Strings
    /\ image_paths = <<>>
    /\ card_in = Card("red", "number", 0, 1)

NextColor == ParseBorderColor

SpecColor == InitColor /\ [][NextColor]_vars

----------------------------------------------------------------------------
(* concept_for_card on its own, on every card with a value up to MaxValue  *)
(* and a copy index up to MaxCopy                                          *)

Kinds == {"number", "skip", "reverse", "draw2", "wild", "wild_draw4"}
Colors == {"red", "yellow", "green", "blue", "wild"}

Cards ==
    { Card(c, k, v, x) : c \in Colors, k \in Kinds,
                         v \in {NoValue} \cup 0..MaxValue, x \in 1..MaxCopy }

\* concept_for_card(card)
ConceptForCard ==
    /\ pc = "concept"
    /\ concept' \in concept_for_card(card_in)
    /\ pc' = "mapped"
    /\ UNCHANGED <<cfg_vars, error, gen_vars, pdf_vars, color_str, border_rgb, card_in>>

InitConcept ==
    /\ Defaults
    /\ pc = "concept"
    /\ Idle
    /\ card_in \in Cards
    /\ image_paths = <<>>
    /\ color_str = <<>>

NextConcept == ConceptForCard

SpecConcept == InitConcept /\ [][NextConcept]_vars

----------------------------------------------------------------------------
(* Properties *)

\* the PNG path of a deck card
PathOfCard(card) == PathJoin(OUTPUT_DIR, filename_for(card))

\* the positions of the deck holding a card of this color, kind and value
Positions(d, color, kind, value) ==
    { k \in DOMAIN d : d[k].color = color /\ d[k].kind = kind /\ d[k].value = value }

\* C1: the assertion of build_uno_deck never fails, and the deck it returns
\* holds exactly 108 cards: per color one 0, two of each of 1..9, two each of
\* skip, reverse and draw2; four wild and four wild_draw4 of color wild; a
\* value (0..9) is present exactly on the cards of kind number.
DeckCanonical ==
    /\ error # "AssertionError"
    /\ pc = "load_bg" =>
        /\ Len(deck) = 108
        /\ \A k \in 1..Len(colors) :
            /\ Cardinality(Positions(deck, colors[k], "number", 0)) = 1
            /\ \A v \in 1..9 :
                   Cardinality(Positions(deck, colors[k], "number", v)) = 2
            /\ \A a \in {"skip", "reverse", "draw2"} :
                   Cardinality(Positions(deck, colors[k], a, NoValue)) = 2
        /\ Cardinality(Positions(deck, "wild", "wild", NoValue)) = 4
        /\ Cardinality(Positions(deck, "wild", "wild_draw4", NoValue)) = 4
        /\ \A k \in DOMAIN deck :
               IF deck[k].kind = "number"
               THEN deck[k].value \in 0..9
               ELSE deck[k].value = NoValue

\* build_uno_deck has returned a deck whose last card is a wild_draw4
DeckBuilt ==
    /\ pc = "load_bg"
    /\ deck # <<>>
    /\ deck[Len(deck)] = Card("wild", "wild_draw4", NoValue, 4)

\* the filename pattern {color}_{kind}[_{value}]-x{copy_index}.png
NamePattern(card) ==
    card.color \o "_" \o card.kind
    \o (IF card.kind = "number" THEN "_" \o ToString(card.value) ELSE "")
    \o "-x" \o ToString(card.copy_index) \o ".png"

\* C2: the cards of the deck have pairwise different filenames, each of the
\* form {color}_{kind}[_{value}]-x{copy_index}.png with the value segment
\* exactly for number cards, and no two writes of a run target the same path.
FilenamesDistinct ==
    /\ pc = "load_bg" =>
        /\ Cardinality({ filename_for(deck[k]) : k \in DOMAIN deck }) = Len(deck)
        /\ \A k \in DOMAIN deck :
            /\ filename_for(deck[k]) = NamePattern(deck[k])
            /\ Len(filename_for(deck[k]))
                   = Len(deck[k].color) + 1 + Len(deck[k].kind)
                     + (IF deck[k].kind = "number" THEN 2 ELSE 0) + 3 + 4
    /\ Cardinality({ saved[k] : k \in DOMAIN saved }) = Len(saved)
    /\ Cardinality(files) = Len(saved)

\* a full run has written all 108 cards
AllCardsWritten ==
    /\ pc = "done"
    /\ Len(saved) = 108
    /\ Cardinality(files) = 108

\* the cells of page p: a closed page, or the page the canvas still holds
PageCells(p) == IF p <= Len(shown) THEN shown[p] ELSE page

\* C3: image i (0-indexed) is drawn once, on page floor(i/9)+1, in row
\* (i mod 9) div 3 and column (i mod 9) mod 3; a new page is started after
\* image i exactly when i+1 is a multiple of 9 and image i is not the last;
\* the saved document has ceil(n/9) pages, none empty, and no cell holds two
\* images.
PdfLayout ==
    LET n == Len(image_paths)
    IN  (pc \in {"pdf", "done"} /\ n >= 1) =>
        /\ \A i \in 0..(pdf_i - 1) :
               LET p == (i \div 9) + 1
               IN  /\ p <= Len(shown) + 1
                   /\ [row |-> (i % 9) \div 3, col |-> (i % 9) % 3,
                       i |-> i, path |-> image_paths[i + 1]] \in PageCells(p)
        /\ \A p \in 1..(Len(shown) + 1) :
               /\ \A c \in PageCells(p) : (c.i \div 9) + 1 = p /\ c.i < pdf_i
               /\ \A c, d \in PageCells(p) :
                      (c.row = d.row /\ c.col = d.col) => c = d
        /\ breaks = { i \in 0..(pdf_i - 1) : (i + 1) % 9 = 0 /\ i + 1 # n }
        /\ pdf_saved =>
               /\ Len(shown) = (n + 8) \div 9
               /\ \A p \in 1..Len(shown) : shown[p] # {}
               /\ Cardinality(UNION { shown[p] : p \in 1..Len(shown) }) = n

\* 108 images have been laid out on 12 pages
TwelvePages ==
    /\ pdf_saved
    /\ Len(image_paths) = 108
    /\ Len(shown) = 12
    /\ breaks = {8, 17, 26, 35, 44, 53, 62, 71, 80, 89, 98}

IsHexDigit(c) == DigitVal(c) \in 0..15
IsDecimal(s) == s # <<>> /\ \A k \in 1..Len(s) : DigitVal(s[k]) \in 0..9

\* '#rgb', '#rrggbb' and 'r,g,b', white space around the string or around a
\* component allowed
WellFormedHex(t, n) ==
    /\ Len(t) = n + 1
    /\ t[1] = "#"
    /\ \A k \in 2..(n + 1) : IsHexDigit(t[k])

WellFormedRgb(t) ==
    /\ Len(Split(t, ",")) = 3
    /\ \A k \in 1..3 : IsDecimal(Strip(Split(t, ",")[k]))

\* the triple a well-formed string denotes
Denoted(t) ==
    IF WellFormedHex(t, 3)
    THEN [k \in 1..3 |-> 17 * DigitVal(t[k + 1])]
    ELSE IF WellFormedHex(t, 6)
         THEN [k \in 1..3 |-> 16 * DigitVal(t[2 * k]) + DigitVal(t[2 * k + 1])]
         ELSE [k \in 1..3 |-> DigitsVal(Strip(Split(t, ",")[k]), 10)]

WellFormed(t) == WellFormedHex(t, 3) \/ WellFormedHex(t, 6) \/ WellFormedRgb(t)

\* C4: parse_border_color returns the denoted triple for a well-formed
\* '#rgb', '#rrggbb' or 'r,g,b' string and (0,0,0) for every other string.
BorderColorContract ==
    pc = "parsed" =>
        border_rgb = IF WellFormed(Strip(color_str))
                     THEN Denoted(Strip(color_str))
                     ELSE Black

\* C5: every request in flight carries the prompt computed for the current
\* card, the configured resolution and the configured model name.
RequestCarriesSettings ==
    \A r \in request :
        /\ r.prompt \in prompt_for_card(deck[idx])
        /\ r.size = openai_size
        /\ r.model = openai_model

\* C6: for a card whose color is not wild, the result of concept_for_card is
\* fixed by the card's fields: theme(c)[v mod N] for a number card of value
\* v, and theme(c)[k mod N], k the copy index, for a skip, reverse or draw2
\* card (and for any other card without a value), N the length of the
\* color's list; for a card of color wild it is an element of the wild list.
ConceptDeterministic ==
    pc = "mapped" =>
        LET c == card_in.color
            N == Len(COLOR_THEME[c])
        IN  IF c = "wild"
            THEN \E k \in 1..Len(COLOR_THEME["wild"]) : concept = COLOR_THEME["wild"][k]
            ELSE IF card_in.kind = "number" /\ card_in.value # NoValue
                 THEN concept = COLOR_THEME[c][(card_in.value % N) + 1]
                 ELSE concept = COLOR_THEME[c][(card_in.copy_index % N) + 1]

\* a green number card of value 12 and copy index 1 has been mapped to the
\* third concept of the green list
NumberConceptWraps ==
    /\ pc = "mapped"
    /\ card_in = Card("green", "number", 12, 1)
    /\ concept = "Lost sheep found by smiling shepherd"

\* C7: once a fatal error has occurred (the fallback background is missing,
\* or the art provider fails on the k-th card) the run has ended and takes no
\* further step, the failed call was not repeated, images_to_pdf was never
\* entered and no PDF exists, and the PNG files written are exactly those of
\* the first k-1 cards of the deck (none for a missing background).
FatalErrorEndsRun ==
    error # "none" =>
        /\ pc = "failed"
        /\ ~ENABLED Next
        /\ ~pdf_saved /\ shown = <<>> /\ page = {} /\ image_paths = <<>> /\ pdf_i = 0
        /\ files = { PathOfCard(deck[j]) : j \in 1..(idx - 1) }
        /\ saved = [j \in 1..(idx - 1) |-> PathOfCard(deck[j])]
        /\ error = "FileNotFoundError" => (test_mode /\ ~bg_exists /\ files = {} /\ requests = 0)
        /\ error = "APIError" => (~test_mode /\ requests = idx /\ calls = idx - 1)

\* the art provider failed on the third card
FailedOnThirdCard ==
    /\ pc = "failed"
    /\ error = "APIError"
    /\ idx = 3
    /\ Cardinality(files) = 2

\* C8: with early-stop, generate_all_cards returns exactly one path, that of
\* red_number_0-x1.png, the only file written, and the saved document has one
\* page with one cell; without early-stop it returns the 108 paths of the
\* deck's cards in deck order.
EarlyStopFirstCardOnly ==
    pc \in {"returned", "pdf", "done"} =>
        IF generate_first_only
        THEN /\ saved = << PathJoin(OUTPUT_DIR, "red_number_0-x1.png") >>
             /\ files = { PathJoin(OUTPUT_DIR, "red_number_0-x1.png") }
             /\ idx = 1
             /\ pdf_saved => (Len(shown) = 1 /\ Cardinality(shown[1]) = 1)
        ELSE /\ Len(saved) = 108
             /\ saved = [k \in 1..Len(deck) |-> PathOfCard(deck[k])]

\* an early-stop run has saved its one-page document
EarlyStopDone ==
    /\ pc = "done"
    /\ generate_first_only
    /\ pdf_saved
    /\ Len(saved) = 1

\* 0 for the zeros, 1 for the numbers 1..9, 2 for the action cards, 3 for the
\* wild cards
Rank(card) ==
    IF card.color = "wild" THEN 3
    ELSE IF card.kind = "number" THEN (IF card.value = 0 THEN 0 ELSE 1)
    ELSE 2

\* C9: in the deck build_uno_deck returns, the four zeros come first, in the order red, yellow,
\* green, blue; every number card comes before every skip, reverse or draw2
\* card, and every colored card before every wild card.
DeckOrder ==
    pc = "load_bg" =>
        /\ \A k \in 1..4 : deck[k] = Card(colors[k], "number", 0, 1)
        /\ \A i, j \in DOMAIN deck : Rank(deck[i]) < Rank(deck[j]) => i < j
        /\ \A r \in 0..3 : \E k \in DOMAIN deck : Rank(deck[k]) = r

\* build_uno_deck has returned a deck whose 76th card is the last number and
\* whose 77th is the first action card
DeckAtFirstAction ==
    /\ pc = "load_bg"
    /\ Len(deck) >= 77
    /\ Rank(deck[76]) = 1
    /\ Rank(deck[77]) = 2

====
